---- MODULE Spec2Model ----
(***************************************************************************)
(* TabletColumn / TabletSchema of be/src/storage/tablet_schema.h.          *)
(*                                                                         *)
(* The header carries the data members with their default initialisers,   *)
(* the inline accessors, the flag byte of TabletColumn and the body of     *)
(* set_sort_key_idxes.  The bodies of the out-of-line members              *)
(* (append_column, clear_columns, copy_from, the create factories, the     *)
(* constructors, schema) live in other translation units; those            *)
(* operations are modelled from their description in the design document   *)
(* and are marked so where they are defined.  Where the design document    *)
(* does not say what such a member does to a data member, every behaviour  *)
(* it leaves open is an outcome of the operation.  TabletSchemaMap, of     *)
(* which the header holds a forward declaration only, is not modelled.     *)
(***************************************************************************)
EXTENDS Integers, Sequences, FiniteSets, TLC

VARIABLES
    this,        \* the TabletSchema under construction / evolution
    derived,     \* shared_ptr returned by the last factory call: <<>> is nullptr
    call,        \* the last member or factory invoked, with its list argument
    outcome,     \* how that call ended: "ok", "fail" (reported), "abort" (process
                 \* died), "wild" (the object is no longer well formed),
                 \* "garbled" (the call ran on with values no caller handed
                 \* in); after the last three, this stands for no object
    once_flag,   \* SpecOnce: _init_schema_once_flag
    _schema,     \* SpecOnce: the unique_ptr<Schema> member
    rpc,         \* SpecOnce: per reader position inside schema()
    ret,         \* SpecOnce: per reader value returned by schema()
    init_runs    \* SpecOnce: how many times _init_schema has been entered

schemaVars == <<this, derived, call, outcome>>
onceVars   == <<once_flag, _schema, rpc, ret, init_runs>>
vars == <<schemaVars, onceVars>>

(***************************************************************************)
(* Bounds of the model.                                                    *)
(***************************************************************************)
MaxCols == 2
MaxUid == 1
MaxSortKeys == 2

UIDs == 0 .. MaxUid
\* ColumnId values a caller may pass; MaxCols is never a valid ordinal
ColumnIds == 0 .. MaxCols

RECURSIVE Pow2(_)
Pow2(n) == IF n = 0 THEN 1 ELSE 2 * Pow2(n - 1)

Range(s) == {s[i] : i \in DOMAIN s}

NoDup(s) == \A i, j \in DOMAIN s : s[i] = s[j] => i = j

\* all sequences over S of length at most n
SeqsUpTo(S, n) == UNION {[1 .. k -> S] : k \in 0 .. n}

(***************************************************************************)
(* Integer members as they lie in memory.  A uint32_t / int32_t member is  *)
(* held as the 32-bit two's complement integer with the same bit pattern   *)
(* (the ColumnId 2147483650 is held as -2147483646), a size_t member as    *)
(* its two 32-bit words.                                                   *)
(***************************************************************************)
\* bit number `bit` of a word
TestBit(w, bit) ==
    IF bit = 31 THEN w < 0 ELSE ((w \div Pow2(bit)) % 2) = 1

\* w | (1 << bit)  /  w & ~(1 << bit)
PutBit(w, bit, value) ==
    IF TestBit(w, bit) = value THEN w
    ELSE IF bit = 31
         THEN (IF value THEN (w - 2147483647) - 1 ELSE (w + 2147483647) + 1)
         ELSE (IF value THEN w + Pow2(bit) ELSE w - Pow2(bit))

\* idx < n for a ColumnId idx and a size n
Below(idx, n) == 0 <= idx /\ idx < n

\* a size_t of value n < 2^31
Size64(n) == [lo |-> n, hi |-> 0]

\* a > n for a size_t a and an id n >= 0
Size64Greater(a, n) == a.hi # 0 \/ a.lo < 0 \/ a.lo > n

\* a pointer is held as its two 32-bit words; the schemas modelled here
\* are constructed without a TabletSchemaMap, so the only non-null values
\* their _schema_map takes are those a stray store leaves
nullptr == Size64(0)

(***************************************************************************)
(* TabletColumn: unique id and the packed flag byte.                       *)
(***************************************************************************)
kIsKeyShift == 0
kIsSortKey == 7

_check_flag(flags, pos) == ((flags \div Pow2(pos)) % 2) = 1

\* _flags |= (1 << pos)  /  _flags &= ~(1 << pos)  on a uint8_t
_set_flag(flags, pos, value) ==
    IF value
    THEN (IF _check_flag(flags, pos) THEN flags ELSE (flags + Pow2(pos)) % 256)
    ELSE (IF _check_flag(flags, pos) THEN flags - Pow2(pos) ELSE flags)

is_key(c) == _check_flag(c._flags, kIsKeyShift)
is_sort_key(c) == _check_flag(c._flags, kIsSortKey)
set_is_key(c, value) == [c EXCEPT !._flags = _set_flag(c._flags, kIsKeyShift, value)]
set_is_sort_key(c, value) == [c EXCEPT !._flags = _set_flag(c._flags, kIsSortKey, value)]
unique_id(c) == c._unique_id

\* TabletColumn(): _unique_id = 0, _flags = 0
DefaultColumn == [_unique_id |-> 0, _flags |-> 0]

\* columns a caller can build with set_unique_id / set_is_key / set_is_sort_key
Columns ==
    {set_is_sort_key(set_is_key([DefaultColumn EXCEPT !._unique_id = u], k), sk) :
        u \in UIDs, k \in BOOLEAN, sk \in BOOLEAN}

(***************************************************************************)
(* TabletSchema: the members the accessors read.                           *)
(***************************************************************************)
\* TabletSchema() = default, with the default member initialisers
DefaultSchema ==
    [_cols |-> <<>>,
     _num_key_columns |-> 0,
     _sort_key_idxes |-> <<>>,
     _sort_key_idxes_set |-> {},
     _field_id_to_index |-> <<>>,
     _next_column_unique_id |-> Size64(0),
     _schema_map |-> nullptr]

num_columns(s) == Len(s._cols)
num_key_columns(s) == s._num_key_columns
sort_key_idxes(s) == s._sort_key_idxes
next_column_unique_id(s) == s._next_column_unique_id
shared(s) == s._schema_map # nullptr
\* column(ordinal), ordinals counted from 0
column(s, ordinal) == s._cols[ordinal + 1]

\* value field_index(int32_t) returns for an id the index does not hold
NotFound == -1

field_index(s, col_unique_id) ==
    IF col_unique_id \in DOMAIN s._field_id_to_index
    THEN s._field_id_to_index[col_unique_id]
    ELSE NotFound

\* m[k] = v on an unordered_map: inserts or overwrites
MapPut(m, k, v) == [x \in (DOMAIN m) \cup {k} |-> IF x = k THEN v ELSE m[x]]

\* number of key columns among cols[from..]
RECURSIVE CountKeys(_, _)
CountKeys(cols, from) ==
    IF from > Len(cols) THEN 0
    ELSE (IF is_key(cols[from]) THEN 1 ELSE 0) + CountKeys(cols, from + 1)

\* the unique-id index built by inserting cols[from..] in order
RECURSIVE BuildIndex(_, _, _)
BuildIndex(cols, from, m) ==
    IF from > Len(cols) THEN m
    ELSE BuildIndex(cols, from + 1, MapPut(m, unique_id(cols[from]), from - 1))

(***************************************************************************)
(* set_sort_key_idxes, as written in the header.  _sort_key_idxes_set is   *)
(* not assigned.                                                           *)
(*                                                                         *)
(* _cols[idx] with idx >= _cols.size() is undefined behaviour: the store   *)
(* _flags |= 0x80 / _flags &= ~0x80 goes to the byte at                    *)
(* _cols.data() + idx * sizeof(TabletColumn) + offsetof(_flags), whatever  *)
(* lies there.  The outcomes of one such store:                            *)
(*   - the process dies (unmapped page, hardened or sanitised build);      *)
(*   - the byte belongs to none of the members modelled: nothing changes;  *)
(*   - the byte is one of the bytes of an integer or pointer member of     *)
(*     the schema: bit 7 of that byte is set or cleared (a "stray bit");   *)
(*   - the byte is one of the bytes of an entry of the by-value parameter  *)
(*     sort_key_idxes: bit 7 of that byte is set or cleared, and assign    *)
(*     copies the entry as the store left it.  After assign the parameter  *)
(*     is read no more: a store of the second loop onto it changes nothing;*)
(*   - the byte belongs to the bookkeeping of a container (vector header,  *)
(*     hash bucket or node) or of the allocator: the object is no longer   *)
(*     a well-formed TabletSchema ("wild");                                *)
(*   - the byte belongs to the vector header of the by-value parameter or  *)
(*     to the frame of the running call (the this pointer, the iterators   *)
(*     of the loops): the call runs on with values no caller handed in     *)
(*     ("garbled").  It may return with the object well formed, holding a  *)
(*     list that is shorter or longer than the argument, made of whatever  *)
(*     words lay next to the argument's buffer, and flags set from that    *)
(*     list; it may die or store out of range again.  What it leaves is    *)
(*     not a function of the program's state, and is not followed.         *)
(* The loops read _sort_key_idxes as they go, so a store that changes an   *)
(* entry not yet visited changes the index used later.                     *)
(***************************************************************************)
\* bytes of a member of the given width in bytes
BytesOf(width) == 0 .. (width - 1)

\* the bytes an out-of-range store can hit, by member, element and byte
StrayTargets(st) ==
    {[member |-> "_sort_key_idxes", at |-> j, byte |-> b] :
        j \in DOMAIN st.s._sort_key_idxes, b \in BytesOf(4)}
    \cup {[member |-> "sort_key_idxes", at |-> j, byte |-> b] :
        j \in DOMAIN st.arg, b \in BytesOf(4)}
    \cup {[member |-> "_field_id_to_index", at |-> u, byte |-> b] :
        u \in DOMAIN st.s._field_id_to_index, b \in BytesOf(4)}
    \cup {[member |-> "_num_key_columns", at |-> 0, byte |-> b] : b \in BytesOf(2)}
    \cup {[member |-> "_next_column_unique_id", at |-> 0, byte |-> b] : b \in BytesOf(8)}
    \cup {[member |-> "_schema_map", at |-> 0, byte |-> b] : b \in BytesOf(8)}

\* the store landing on target tg
StoreAt(st, tg, value) ==
    LET bit == 8 * (tg.byte % 4) + 7
    IN  CASE tg.member = "_sort_key_idxes" ->
                 [st EXCEPT !.s._sort_key_idxes[tg.at] = PutBit(@, bit, value)]
          [] tg.member = "sort_key_idxes" ->
                 [st EXCEPT !.arg[tg.at] = PutBit(@, bit, value)]
          [] tg.member = "_field_id_to_index" ->
                 [st EXCEPT !.s._field_id_to_index[tg.at] = PutBit(@, bit, value)]
          [] tg.member = "_num_key_columns" ->
                 [st EXCEPT !.s._num_key_columns = PutBit(@, bit, value)]
          [] tg.member = "_next_column_unique_id" ->
                 IF tg.byte < 4
                 THEN [st EXCEPT !.s._next_column_unique_id.lo = PutBit(@, bit, value)]
                 ELSE [st EXCEPT !.s._next_column_unique_id.hi = PutBit(@, bit, value)]
          [] tg.member = "_schema_map" ->
                 IF tg.byte < 4
                 THEN [st EXCEPT !.s._schema_map.lo = PutBit(@, bit, value)]
                 ELSE [st EXCEPT !.s._schema_map.hi = PutBit(@, bit, value)]

\* a call that has ended abnormally: what it left behind is not observed
Ended(end) == [s |-> DefaultSchema, arg |-> <<>>, end |-> end]

\* a call on schema s, running, with the entries of its by-value parameter
\* not yet copied
Running(s, new_idxes) == [s |-> s, arg |-> new_idxes, end |-> "ok"]

\* the outcomes of one out-of-range _cols[idx].set_is_sort_key(value)
StrayStore(st, value) ==
    {Ended("abort"), Ended("wild"), Ended("garbled"), st}
    \cup {StoreAt(st, tg, value) : tg \in StrayTargets(st)}

\* whether the loop over _sort_key_idxes is over before position k
LoopDone(st, k) == st.end # "ok" \/ k > Len(st.s._sort_key_idxes)

\* _cols[idx].set_is_sort_key(value) for idx = _sort_key_idxes[k]
set_is_sort_key_at(st, k, value) ==
    LET idx == st.s._sort_key_idxes[k]
    IN  IF LoopDone(st, k) THEN {st}
        ELSE IF Below(idx, Len(st.s._cols))
             THEN {[st EXCEPT !.s._cols[idx + 1] = set_is_sort_key(@, value)]}
             ELSE StrayStore(st, value)

\* for (auto idx : _sort_key_idxes) _cols[idx].set_is_sort_key(value), from
\* position k on, applied to every way sts the call can have run so far
RECURSIVE set_is_sort_key_each(_, _, _)
set_is_sort_key_each(sts, k, value) ==
    IF \A st \in sts : LoopDone(st, k) THEN sts
    ELSE set_is_sort_key_each(UNION {set_is_sort_key_at(st, k, value) : st \in sts},
                              k + 1, value)

\* _sort_key_idxes.clear(); _sort_key_idxes.assign(begin, end): the entries
\* of the parameter as the first loop left them; the parameter is read no
\* more
assign(st) ==
    IF st.end = "ok"
    THEN [st EXCEPT !.s._sort_key_idxes = st.arg, !.arg = <<>>]
    ELSE st

\* every way the call can end: end = "ok" with the schema s it leaves, or
\* end = "abort" / "wild" / "garbled"
set_sort_key_idxes(s, new_idxes) ==
    LET cleared == set_is_sort_key_each({Running(s, new_idxes)}, 1, FALSE)
    IN  set_is_sort_key_each({assign(c) : c \in cleared}, 1, TRUE)


(***************************************************************************)
(* Out-of-line members, modelled from the design document (section 4.2).   *)
(***************************************************************************)
Ordinals(s) == 0 .. (num_columns(s) - 1)

\* append_column "adds to the end, does not auto-update sort-key/key
\* counts": the column goes to the end as it is handed in and
\* _num_key_columns, the sort-key list and its set view stay.  The unique-id
\* index gains the new ordinal; for an id the index already holds, the
\* document does not say whether the entry is overwritten or kept, nor
\* whether _next_column_unique_id is raised above the new id: each is an
\* outcome.
append_column(s, c) ==
    LET u == unique_id(c)
        indexes ==
            {MapPut(s._field_id_to_index, u, Len(s._cols))}
            \cup (IF u \in DOMAIN s._field_id_to_index
                  THEN {s._field_id_to_index} ELSE {})
        counters ==
            {s._next_column_unique_id}
            \cup (IF Size64Greater(s._next_column_unique_id, u)
                  THEN {} ELSE {Size64(u + 1)})
    IN  {[s EXCEPT !._cols = Append(@, c),
                   !._field_id_to_index = m,
                   !._next_column_unique_id = n] : m \in indexes, n \in counters}

\* empties the column sequence, the key count and the unique-id index
clear_columns(s) ==
    [s EXCEPT !._cols = <<>>,
              !._num_key_columns = 0,
              !._field_id_to_index = <<>>]

\* full state replaced by a deep copy of other; identity (the interning
\* back-reference) stays that of the receiver
copy_from(s, other) == [other EXCEPT !._schema_map = s._schema_map]

\* full copy: never registered with an interning service
copy(other) == [other EXCEPT !._schema_map = nullptr]

\* the is_sort_key bit of every column set from the sort-key list
MarkSortKeys(cols, idxes) ==
    [j \in DOMAIN cols |-> set_is_sort_key(cols[j], (j - 1) \in Range(idxes))]

\* the least id above every unique id of cols
RECURSIVE NextIdAbove(_, _)
NextIdAbove(cols, from) ==
    IF from > Len(cols) THEN 0
    ELSE LET rest == NextIdAbove(cols, from + 1)
             own == unique_id(cols[from]) + 1
         IN  IF own > rest THEN own ELSE rest

\* decode of a descriptor holding the columns cols, of pairwise distinct
\* unique ids, and the sort-key list idxes: populates the columns, derives
\* the key count, builds the unique-id index
_init_from_pb(cols, idxes) ==
    [_cols |-> MarkSortKeys(cols, idxes),
     _num_key_columns |-> CountKeys(cols, 1),
     _sort_key_idxes |-> idxes,
     _sort_key_idxes_set |-> Range(idxes),
     _field_id_to_index |-> BuildIndex(cols, 1, <<>>),
     _next_column_unique_id |-> Size64(NextIdAbove(cols, 1)),
     _schema_map |-> nullptr]

\* least position of x in the list q, counted from 1
RECURSIVE FirstPos(_, _, _)
FirstPos(q, x, from) ==
    IF q[from] = x THEN from ELSE FirstPos(q, x, from + 1)

\* new ordinal of base ordinal ord under the selection column_indexes, which
\* holds it: that of its first occurrence
NewOrdinal(column_indexes, ord) == FirstPos(column_indexes, ord, 1) - 1

\* sort-key list of a projection, walking the base list from position k:
\* the entry of a selected column is remapped to the new ordinal (design
\* document, section 4.2); the entry of a column that was not selected stays
\* as it is, the "wrong sort key idxes" the partial schema keeps according
\* to the comment above set_sort_key_idxes
RECURSIVE ProjectSortKeys(_, _, _)
ProjectSortKeys(base_idxes, column_indexes, k) ==
    IF k > Len(base_idxes) THEN <<>>
    ELSE LET ord == base_idxes[k]
             rest == ProjectSortKeys(base_idxes, column_indexes, k + 1)
         IN  IF ord \in Range(column_indexes)
             THEN <<NewOrdinal(column_indexes, ord)>> \o rest
             ELSE <<ord>> \o rest

\* the schema holding the base columns at the ordinals column_indexes, all
\* of which exist in the base
Project(tablet_schema, column_indexes) ==
    LET cols == [j \in DOMAIN column_indexes |->
                     column(tablet_schema, column_indexes[j])]
        keys == ProjectSortKeys(tablet_schema._sort_key_idxes, column_indexes, 1)
    IN  [_cols |-> cols,
         _num_key_columns |-> CountKeys(cols, 1),
         _sort_key_idxes |-> keys,
         _sort_key_idxes_set |-> Range(keys),
         _field_id_to_index |-> BuildIndex(cols, 1, <<>>),
         _next_column_unique_id |-> tablet_schema._next_column_unique_id,
         _schema_map |-> nullptr]

\* projection by a list of int32_t ordinals; <<>> when one of them is not an
\* ordinal of the base
create(tablet_schema, column_indexes) ==
    IF \E j \in DOMAIN column_indexes :
           ~Below(column_indexes[j], num_columns(tablet_schema))
    THEN <<>>
    ELSE <<Project(tablet_schema, column_indexes)>>

\* projection by unique id list: each id is resolved through the base's
\* unique-id index; <<>> when an id is not in it
create_with_uid(tablet_schema, unique_column_ids) ==
    IF \E j \in DOMAIN unique_column_ids :
           field_index(tablet_schema, unique_column_ids[j]) = NotFound
    THEN <<>>
    ELSE create(tablet_schema,
                [j \in DOMAIN unique_column_ids |->
                     field_index(tablet_schema, unique_column_ids[j])])

\* unique ids an index definition names
IndexUids == 0 .. MaxUid + 1

\* build_current_tablet_schema(index_id, version, index, ori_tablet_schema):
\* a void member that rewrites the receiver.  index is held as the list of
\* the unique ids its columns name.  Every id is resolved through the
\* unique-id index of ori_tablet_schema; when one is missing the derivation
\* fails (end = "fail") and the receiver is taken to stay as it was.
\* Otherwise the receiver holds the columns named, in the order of index,
\* with the key count and the unique-id index derived from them.  The
\* design document does not say whether the sort-key list is that of the
\* receiver or the projected one of ori_tablet_schema, nor which value
\* _next_column_unique_id takes (the receiver's, that of ori_tablet_schema,
\* or the least id above the columns'): each is an outcome.
build_current_tablet_schema(s, index, ori_tablet_schema) ==
    IF \E j \in DOMAIN index : field_index(ori_tablet_schema, index[j]) = NotFound
    THEN {[s |-> s, end |-> "fail"]}
    ELSE LET p == Project(ori_tablet_schema,
                          [j \in DOMAIN index |-> field_index(ori_tablet_schema, index[j])])
             lists == {p, s}
             counters == {s._next_column_unique_id,
                          ori_tablet_schema._next_column_unique_id,
                          Size64(NextIdAbove(p._cols, 1))}
         IN  {[s |-> [p EXCEPT !._sort_key_idxes = l._sort_key_idxes,
                               !._sort_key_idxes_set = l._sort_key_idxes_set,
                               !._next_column_unique_id = n,
                               !._schema_map = s._schema_map],
               end |-> "ok"] : l \in lists, n \in counters}

(***************************************************************************)
(* Spec and SpecKeys: one schema being evolved in place by its owner,      *)
(* starting from a default-constructed TabletSchema or from a schema       *)
(* obtained by decode or projection.  Once the process has died, or an     *)
(* out-of-range store has left the object no longer well formed, no        *)
(* further call is made.                                                   *)
(*                                                                         *)
(* Spec exercises the sort-key members: every appended column takes the    *)
(* number of columns as its unique id, the first column is the key column, *)
(* the is_sort_key bit of the appended column is arbitrary, and the list   *)
(* handed to set_sort_key_idxes is any list of ordinals of the schema,     *)
(* repeated or not.  The list a call finds may still name an ordinal the   *)
(* schema no longer has (clear_columns leaves the list).                   *)
(*                                                                         *)
(* SpecStray hands set_sort_key_idxes any list, ordinals the schema does   *)
(* not have included, once.                                                *)
(*                                                                         *)
(* SpecKeys exercises the key count and the unique-id index: the appended  *)
(* column carries any unique id and any flag bits, and the schema may be   *)
(* replaced by a projection of itself.                                     *)
(***************************************************************************)
\* lists of distinct entries
DistinctSeqs(S, n) == {q \in SeqsUpTo(S, n) : NoDup(q)}

\* the schema of the design document's projection example, [A(key), B,
\* C(sort key)], as decoded, and its projection by <<2, 0>>
ExampleSchema ==
    LET A == set_is_key([DefaultColumn EXCEPT !._unique_id = 0], TRUE)
        B == [DefaultColumn EXCEPT !._unique_id = 1]
        C == [DefaultColumn EXCEPT !._unique_id = 2]
    IN  _init_from_pb(<<A, B, C>>, <<2>>)

\* the schemas an owner starts from, and those copy_from is given
SourceSchemas == {DefaultSchema, ExampleSchema} \cup Range(create(ExampleSchema, <<2, 0>>))

\* Spec: the columns the owner may append next
SortColumns(s) ==
    {set_is_sort_key(set_is_key([DefaultColumn EXCEPT !._unique_id = num_columns(s)],
                                num_columns(s) = 0), sk) : sk \in BOOLEAN}

\* SpecDerive: the columns of a descriptor; the column with unique id 0 is
\* the key column
PlainColumns ==
    {set_is_key([DefaultColumn EXCEPT !._unique_id = u], u = 0) : u \in UIDs}

Called(op, arg) == call' = [op |-> op, arg |-> arg]

\* the owner goes on calling: the process is alive and the object is well
\* formed
Alive == outcome \notin {"abort", "wild", "garbled"}

SchemaInit ==
    /\ this \in SourceSchemas
    /\ derived = <<>>
    /\ call = [op |-> "TabletSchema", arg |-> <<>>]
    /\ outcome = "ok"

AppendColumn(c) ==
    /\ Alive
    /\ num_columns(this) < MaxCols
    /\ this' \in append_column(this, c)
    /\ Called("append_column", <<>>)
    /\ outcome' = "ok"
    /\ UNCHANGED <<derived, onceVars>>

ClearColumns ==
    /\ Alive
    /\ this' = clear_columns(this)
    /\ Called("clear_columns", <<>>)
    /\ outcome' = "ok"
    /\ UNCHANGED <<derived, onceVars>>

SetSortKeyIdxes(new_idxes) ==
    /\ Alive
    /\ Called("set_sort_key_idxes", <<>>)
    /\ \E r \in set_sort_key_idxes(this, new_idxes) :
           /\ this' = IF r.end = "ok" THEN r.s ELSE this
           /\ outcome' = r.end
    /\ UNCHANGED <<derived, onceVars>>

CopyFrom(tablet_schema) ==
    /\ Alive
    /\ this' = copy_from(this, tablet_schema)
    /\ Called("copy_from", <<>>)
    /\ outcome' = "ok"
    /\ UNCHANGED <<derived, onceVars>>

BuildCurrentTabletSchema(index, ori_tablet_schema) ==
    /\ Alive
    /\ Called("build_current_tablet_schema", <<>>)
    /\ \E r \in build_current_tablet_schema(this, index, ori_tablet_schema) :
           /\ this' = r.s
           /\ outcome' = r.end
    /\ UNCHANGED <<derived, onceVars>>

\* SpecStray: entries handed to set_sort_key_idxes: the ColumnIds and one
\* that carries bit 7
StrayIds == ColumnIds \cup {128 + 1}

\* SpecStray: the schemas set_sort_key_idxes is called on: empty, one
\* column, the example, and one column after a call that returned from an
\* out-of-range store
StraySchemas ==
    LET one == _init_from_pb(<<DefaultColumn>>, <<0>>)
    IN  {DefaultSchema, one, ExampleSchema}
        \cup {r.s : r \in {x \in set_sort_key_idxes(one, <<1>>) : x.end = "ok"}}

StrayInit ==
    /\ this \in StraySchemas
    /\ derived = <<>>
    /\ call = [op |-> "TabletSchema", arg |-> <<>>]
    /\ outcome = "ok"

\* the one call of SpecStray
SetSortKeyIdxesOnce(new_idxes) ==
    /\ call.op = "TabletSchema"
    /\ SetSortKeyIdxes(new_idxes)

(***************************************************************************)
(* SpecDerive: the factories applied to a published schema.  The published *)
(* schema is any decoded schema: columns of pairwise distinct unique ids   *)
(* in any order, and a sort-key list of distinct ordinals of the schema.   *)
(* The lists handed to the factories may repeat an entry and may name      *)
(* ordinals or ids the base does not have, a negative ordinal included.    *)
(***************************************************************************)
MaxProj == 2

\* int32_t ordinals handed to create
ProjOrdinals == -1 .. MaxCols

\* unique ids handed to create_with_uid
ProjUids == 0 .. MaxUid + 1

BaseSchemas ==
    {_init_from_pb(p[1], p[2]) :
        p \in {q \in SeqsUpTo(PlainColumns, MaxCols) \X DistinctSeqs(0 .. MaxCols - 1, MaxSortKeys) :
                  /\ \A i \in DOMAIN q[2] : q[2][i] < Len(q[1])
                  /\ \A i, j \in DOMAIN q[1] :
                         unique_id(q[1][i]) = unique_id(q[1][j]) => i = j}}

DeriveInit ==
    /\ this \in BaseSchemas
    /\ derived = <<>>
    /\ call = [op |-> "TabletSchema", arg |-> <<>>]
    /\ outcome = "ok"

Copy ==
    /\ derived' = <<copy(this)>>
    /\ Called("copy", <<>>)
    /\ outcome' = "ok"
    /\ UNCHANGED <<this, onceVars>>

Create(column_indexes) ==
    /\ derived' = create(this, column_indexes)
    /\ Called("create", column_indexes)
    /\ outcome' = IF derived' = <<>> THEN "fail" ELSE "ok"
    /\ UNCHANGED <<this, onceVars>>

CreateWithUid(unique_column_ids) ==
    /\ derived' = create_with_uid(this, unique_column_ids)
    /\ Called("create_with_uid", unique_column_ids)
    /\ outcome' = IF derived' = <<>> THEN "fail" ELSE "ok"
    /\ UNCHANGED <<this, onceVars>>

(***************************************************************************)
(* SpecOnce: schema() on one published TabletSchema, called by concurrent  *)
(* readers.  The header declares _schema and _init_schema_once_flag; the   *)
(* body of schema() is modelled from the design document: std::call_once   *)
(* on the flag runs _init_schema, then _schema.get() is returned.          *)
(* _init_schema allocates the Schema, fills it and only then the caller of *)
(* call_once marks the flag done.                                          *)
(***************************************************************************)
MaxReaders == 3
MaxCalls == 2

Readers == 1 .. MaxReaders

\* values of _schema: no object, an object whose fields are being filled,
\* the finished object
Null == "null"
Partial == "partial"
Full == "full"

\* call_once entered without the flag: every caller runs the initialiser
once_enter_unguarded(flag) == "run"

\* what call_once does on entry, by the state of the flag: run the
\* initialiser, wait for the running one, or pass
once_enter(flag) ==
    CASE flag = "new" -> "run"
      [] flag = "running" -> "wait"
      [] flag = "done" -> "pass"

OnceInit ==
    /\ once_flag = "new"
    /\ _schema = Null
    /\ rpc = [r \in Readers |-> "idle"]
    /\ ret = [r \in Readers |-> <<>>]
    /\ init_runs = 0

\* schema() entered: std::call_once(_init_schema_once_flag, ...)
EnterSchema(r) ==
    /\ rpc[r] = "idle"
    /\ Len(ret[r]) < MaxCalls
    /\ once_enter(once_flag) # "wait"
    /\ IF once_enter(once_flag) = "run"
       THEN /\ once_flag' = "running"
            /\ rpc' = [rpc EXCEPT ![r] = "init"]
            /\ init_runs' = init_runs + 1
       ELSE /\ rpc' = [rpc EXCEPT ![r] = "get"]
            /\ UNCHANGED <<once_flag, init_runs>>
    /\ UNCHANGED <<_schema, ret, schemaVars>>

\* _init_schema, first half: the Schema is allocated and being filled
InitSchemaAlloc(r) ==
    /\ rpc[r] = "init"
    /\ _schema' = Partial
    /\ rpc' = [rpc EXCEPT ![r] = "fill"]
    /\ UNCHANGED <<once_flag, ret, init_runs, schemaVars>>

\* _init_schema, second half, and the return of call_once
InitSchemaDone(r) ==
    /\ rpc[r] = "fill"
    /\ _schema' = Full
    /\ once_flag' = "done"
    /\ rpc' = [rpc EXCEPT ![r] = "get"]
    /\ UNCHANGED <<ret, init_runs, schemaVars>>

\* return _schema.get()
ReturnSchema(r) ==
    /\ rpc[r] = "get"
    /\ ret' = [ret EXCEPT ![r] = Append(@, _schema)]
    /\ rpc' = [rpc EXCEPT ![r] = "idle"]
    /\ UNCHANGED <<once_flag, _schema, init_runs, schemaVars>>

Init == SchemaInit /\ OnceInit
Next ==
    \/ \E c \in SortColumns(this) : AppendColumn(c)
    \/ ClearColumns
    \/ \E l \in SeqsUpTo(Ordinals(this), MaxSortKeys) : SetSortKeyIdxes(l)
    \/ \E src \in SourceSchemas : CopyFrom(src)
    \/ \E index \in SeqsUpTo(IndexUids, MaxProj), ori \in SourceSchemas :
           BuildCurrentTabletSchema(index, ori)
Spec == Init /\ [][Next]_vars

InitStray == StrayInit /\ OnceInit
NextStray ==
    \E l \in SeqsUpTo(StrayIds, MaxSortKeys) : SetSortKeyIdxesOnce(l)
SpecStray == InitStray /\ [][NextStray]_vars

NextKeys ==
    \/ \E c \in Columns : AppendColumn(c)
    \/ ClearColumns
    \/ \E src \in SourceSchemas : CopyFrom(src)
    \/ \E l \in SeqsUpTo(Ordinals(this), MaxProj) : CopyFrom(Project(this, l))
    \/ \E index \in SeqsUpTo(IndexUids, MaxProj), ori \in SourceSchemas :
           BuildCurrentTabletSchema(index, ori)
SpecKeys == Init /\ [][NextKeys]_vars

InitDerive == DeriveInit /\ OnceInit
NextDerive ==
    \/ Copy
    \/ \E l \in SeqsUpTo(ProjOrdinals, MaxProj) : Create(l)
    \/ \E l \in SeqsUpTo(ProjUids, MaxProj) : CreateWithUid(l)
SpecDerive == InitDerive /\ [][NextDerive]_vars

InitOnce ==
    /\ this = DefaultSchema
    /\ derived = <<>>
    /\ call = [op |-> "TabletSchema", arg |-> <<>>]
    /\ outcome = "ok"
    /\ OnceInit
NextOnce ==
    \/ \E r \in Readers : EnterSchema(r)
    \/ \E r \in Readers : InitSchemaAlloc(r)
    \/ \E r \in Readers : InitSchemaDone(r)
    \/ \E r \in Readers : ReturnSchema(r)
SpecOnce == InitOnce /\ [][NextOnce]_vars

(***************************************************************************)
(* Properties of the sort-key list, checked under Spec.                    *)
(***************************************************************************)
\* flags and list agree, every entry is an ordinal, no entry twice
SortKeyConsistent(s) ==
    /\ \A i \in Ordinals(s) :
           is_sort_key(column(s, i)) <=> i \in Range(sort_key_idxes(s))
    /\ \A k \in DOMAIN sort_key_idxes(s) : Below(sort_key_idxes(s)[k], num_columns(s))
    /\ NoDup(sort_key_idxes(s))

\* C1 as claimed: after any sequence of append_column, clear_columns,
\* set_sort_key_idxes and copy_from, column(i).is_sort_key() holds iff i is
\* in sort_key_idxes(), every entry is < num_columns() and none is repeated.
C1_AnySequenceConsistent == SortKeyConsistent(this)

\* C10 as claimed: the set view _sort_key_idxes_set holds exactly the
\* elements of the list _sort_key_idxes.  Stated for the schemas whose list
\* entries are all ordinals of the schema, so that no out-of-range store is
\* involved in reaching them.
C10_SetViewMatchesList ==
    (\A k \in DOMAIN this._sort_key_idxes :
         Below(this._sort_key_idxes[k], num_columns(this)))
        => this._sort_key_idxes_set = Range(this._sort_key_idxes)

(***************************************************************************)
(* Properties of the key count and the unique-id index, checked under      *)
(* SpecKeys.                                                               *)
(***************************************************************************)
KeyOrdinals(s) == {i \in Ordinals(s) : is_key(column(s, i))}

UidsOf(s) == {unique_id(s._cols[i]) : i \in DOMAIN s._cols}

\* every id a lookup is tried with: those in use and some never assigned
LookupIds == 0 .. MaxUid + 2

\* C5 as claimed: num_key_columns() is the number of is_key columns and they
\* occupy exactly the ordinals [0, num_key_columns()).
C5_KeyCountAndPrefix ==
    /\ num_key_columns(this) = Cardinality(KeyOrdinals(this))
    /\ KeyOrdinals(this) = 0 .. (num_key_columns(this) - 1)

IndexIsInverse(s) ==
    /\ \A i \in Ordinals(s) : field_index(s, unique_id(column(s, i))) = i
    /\ \A u \in LookupIds \ UidsOf(s) : field_index(s, u) = NotFound

\* C6 as claimed: field_index(u) is i for every column i carrying u, and the
\* not-found value for every id no column carries.
C6_IndexIsInverse == IndexIsInverse(this)

(***************************************************************************)
(* Properties of the projections, checked under SpecDerive.                *)
(***************************************************************************)
\* position of x in a list that holds it once
PosIn(q, x) == CHOOSE k \in DOMAIN q : q[k] = x

\* ordinal in s of the column carrying unique id u
OrdinalOfUid(s, u) == CHOOSE i \in Ordinals(s) : unique_id(column(s, i)) = u

\* the base ordinals the last projection selected
Selected ==
    IF call.op = "create" THEN call.arg
    ELSE [j \in DOMAIN call.arg |-> OrdinalOfUid(this, call.arg[j])]

C3_InitOnceAllSeeBuilt ==
    /\ init_runs <= 1
    /\ \A r \in Readers : \A k \in DOMAIN ret[r] : ret[r][k] = Full
    /\ (\E r \in Readers : ret[r] # <<>>) => init_runs = 1 /\ _schema = Full

\* one reader has called schema() twice and another one once
C3_Witness ==
    \E r1, r2 \in Readers :
        /\ r1 # r2
        /\ Len(ret[r1]) >= 2
        /\ Len(ret[r2]) >= 1
        /\ init_runs = 1

====
